---- MODULE Spec2Model ----
(***************************************************************************)
(* Model of create_gemma_verified_tokens_V2.py: the keyword classifier of  *)
(* the tokenizer vocabulary (approval / rejection / pending), the cache    *)
(* file holding the three id arrays, and the detail text file.             *)
(*                                                                         *)
(* Token strings are TLA+ strings.  The two tokenizer space markers of the *)
(* source, U+2581 and U+0120, are written "_" and "~" here (the module is  *)
(* ASCII); no token of the model uses "_" or "~" for anything else.        *)
(***************************************************************************)
EXTENDS Integers, Sequences, FiniteSets, TLC

(* ------------------------------ bounds --------------------------------- *)

\* largest number of entries of a vocabulary; ids range over 0..MaxVocab, so
\* that an id may lie outside range(len(vocab)) and two strings may share one
MaxVocab == 2
\* number of runs of the script over the same two files
MaxRuns == 3

(* --------------------------- Python strings ---------------------------- *)

Char(s, i) == SubSeq(s, i, i)

\* Python: s.startswith(p)
StartsWith(s, p) == Len(s) >= Len(p) /\ SubSeq(s, 1, Len(p)) = p

UpperLetters == "ABCDEFGHIJKLMNOPQRSTUVWXYZ"
LowerLetters == "abcdefghijklmnopqrstuvwxyz"

LowerChar(c) ==
    IF \E i \in 1..Len(UpperLetters) : Char(UpperLetters, i) = c
    THEN Char(LowerLetters, CHOOSE i \in 1..Len(UpperLetters) : Char(UpperLetters, i) = c)
    ELSE c

RECURSIVE Lower(_)
\* Python: s.lower()
Lower(s) == IF s = "" THEN "" ELSE LowerChar(Char(s, 1)) \o Lower(SubSeq(s, 2, Len(s)))

RECURSIVE RemoveChar(_, _)
\* Python: s.replace(c, '') for a one-character c
RemoveChar(s, c) ==
    IF s = "" THEN ""
    ELSE (IF Char(s, 1) = c THEN "" ELSE Char(s, 1)) \o RemoveChar(SubSeq(s, 2, Len(s)), c)

IsSpace(c) == c \in {" ", "\t", "\n"}

RECURSIVE LStrip(_)
LStrip(s) == IF s # "" /\ IsSpace(Char(s, 1)) THEN LStrip(SubSeq(s, 2, Len(s))) ELSE s

RECURSIVE RStrip(_)
RStrip(s) == IF s # "" /\ IsSpace(Char(s, Len(s))) THEN RStrip(SubSeq(s, 1, Len(s) - 1)) ELSE s

\* Python: s.strip()
Strip(s) == RStrip(LStrip(s))

\* the non-empty substrings of s: p in s, for a non-empty p, is p \in Substrings(s)
Substrings(s) == { SubSeq(s, i, j) : i, j \in 1..Len(s) } \ { "" }

AnyOf(patterns, substrings) == \E k \in DOMAIN patterns : patterns[k] \in substrings

\* Python: any(p in s for p in patterns), the patterns being non-empty
AnyIn(patterns, s) == AnyOf(patterns, Substrings(s))

\* Python: x in list
InList(x, list) == \E k \in DOMAIN list : list[k] = x

(* ---------------------------- pattern lists ---------------------------- *)

rejection_base_patterns == <<
    "reject", "decline", "deny", "refuse", "disapprov", "dismiss",
    "disqualified", "ineligible", "inadequate", "insufficient",
    "unacceptable", "unsatisfactory", "inappropriate", "unsuitable",
    "fail", "unsuccessful", "unfavorable", "adverse", "poor", "weak", "deficient",
    "bad", "terrible", "awful", "horrible", "wrong", "incorrect", "false",
    "risky", "unsafe", "dangerous", "problematic", "concerning", "warning", "alert",
    "suspicious", "questionable", "doubtful", "uncertain", "unreliable",
    "default", "bankrupt", "insolvent", "delinquent", "overdue", "foreclos",
    "subprime", "toxic", "junk", "distressed", "troubled", "failing",
    "incompetent", "incapable", "unable", "lacking", "missing", "absent",
    "limited", "restricted", "constrained", "impaired", "compromised",
    "impossible", "forbidden", "prohibited", "banned", "blocked", "terminated",
    "cancelled", "stopped", "halted", "suspended", "withdrawn", "revoked",
    "no", "not", "never", "none", "nothing", "nobody", "nowhere",
    "cannot", "can't", "wont", "won't", "shouldnt", "shouldn't",
    "issue", "problem", "trouble", "difficulty", "challenge", "obstacle",
    "barrier", "impediment", "hurdle", "complication", "error", "mistake",
    "severe", "serious", "major", "critical", "significant", "substantial",
    "extreme", "excessive", "overwhelming", "unmanageable" >>

negation_prefixes == << "un", "in", "non", "dis", "im", "ir", "il", "mis", "mal", "anti" >>

positive_stems == <<
    "qualified", "suitable", "acceptable", "favorable", "viable", "approved",
    "adequate", "sufficient", "satisfactory", "appropriate", "worthy", "deserving",
    "reliable", "trustworthy", "stable", "secure", "sound", "healthy", "strong",
    "competitive", "attractive", "appealing", "desirable", "optimal", "ideal",
    "profitable", "beneficial", "advantageous", "valuable", "effective" >>

\* the base list followed by prefix+stem, prefixes outermost
rejection_patterns ==
    rejection_base_patterns \o
    [ k \in 1..(Len(negation_prefixes) * Len(positive_stems)) |->
        negation_prefixes[((k - 1) \div Len(positive_stems)) + 1]
        \o positive_stems[((k - 1) % Len(positive_stems)) + 1] ]

rejection_exact_matches == << "no", "bad", "never", "cannot", "can't", "negative", "void" >>

pending_patterns == <<
    "pending", "review", "reviewing", "under", "consideration", "consider",
    "evaluat", "assess", "analyzing", "processing", "investigat",
    "wait", "waiting", "hold", "holding", "delay", "defer", "postpone",
    "suspend", "pause", "interim", "temporary", "provisional",
    "check", "checking", "verify", "verifying", "confirm", "confirming",
    "validate", "research", "investigate", "examine", "audit",
    "undecided", "uncertain", "unclear", "tbd", "determining",
    "deliberat", "contemplat", "weighing", "studying",
    "conditional", "tentative", "preliminary", "partial", "incomplete",
    "ongoing", "active", "open", "progress" >>

approval_base_stems == <<
    "approv", "accept", "grant", "author", "sanction", "endorse",
    "qualif", "eligib", "suitab", "appropriat", "adequat", "satisfactor",
    "confirm", "agree", "consent", "ratif", "validat", "certif", "pass", "success",
    "excellent", "outstanding", "superior", "strong", "solid", "favorab", "positiv",
    "creditworth", "reliabl", "trustworth", "stab", "secur", "sound", "viabl", "profit",
    "merit", "earn", "deserv", "warrant", "justif", "exceed", "meet" >>

approval_exact_matches == << "yes", "ok", "okay", "fine", "good", "right", "perfect", "ideal" >>

negated_indicators == << "un", "in", "dis", "non", "im", "not", "never" >>

(* ----------------------- per-token classification ---------------------- *)

MarkSP == "_"   \* stands for U+2581
MarkG == "~"    \* stands for U+0120

clean_token(token_str) == Strip(RemoveChar(RemoveChar(token_str, MarkSP), MarkG))

token_lower(token_str) == Lower(clean_token(token_str))

\* the filter with the length test off by one
Skipped_OffByOne(token_str) ==
    \/ Len(clean_token(token_str)) <= 2
    \/ StartsWith(token_str, "<")
    \/ StartsWith(token_str, "[")

\* the filter of the loop: very short tokens and special tokens
Skipped(token_str) ==
    \/ Len(clean_token(token_str)) < 2
    \/ StartsWith(token_str, "<")
    \/ StartsWith(token_str, "[")

is_rejection(token_str) ==
    IF InList(clean_token(token_str), rejection_exact_matches) THEN TRUE
    ELSE AnyIn(rejection_patterns, token_lower(token_str))

is_pending(token_str) == AnyIn(pending_patterns, token_lower(token_str))

\* the approval check without the negation guard on the stems
is_approval_NoNegationGuard(token_str) ==
    IF InList(clean_token(token_str), approval_exact_matches) THEN TRUE
    ELSE AnyIn(approval_base_stems, token_lower(token_str))

is_approval(token_str) ==
    IF InList(clean_token(token_str), approval_exact_matches) THEN TRUE
    ELSE IF AnyIn(approval_base_stems, token_lower(token_str))
         THEN ~ AnyIn(negated_indicators, token_lower(token_str))
         ELSE FALSE

\* the loop body without its `continue` statements: every check that matches
\* appends
Categories_NoContinue(token_str) ==
    IF Skipped(token_str) THEN {}
    ELSE (IF is_rejection(token_str) THEN {"rejection"} ELSE {})
         \cup (IF is_pending(token_str) THEN {"pending"} ELSE {})
         \cup (IF is_approval(token_str) THEN {"approval"} ELSE {})

\* the loop body with the checks in the order approval, pending, rejection
Categories_ApprovalFirst(token_str) ==
    IF Skipped(token_str) THEN {}
    ELSE IF is_approval(token_str) THEN {"approval"}
    ELSE IF is_pending(token_str) THEN {"pending"}
    ELSE IF is_rejection(token_str) THEN {"rejection"}
    ELSE {}

\* the categories one loop iteration appends the token to, the `continue`
\* statements making it at most one
Categories(token_str) ==
    IF Skipped(token_str) THEN {}
    ELSE IF is_rejection(token_str) THEN {"rejection"}
    ELSE IF is_pending(token_str) THEN {"pending"}
    ELSE IF is_approval(token_str) THEN {"approval"}
    ELSE {}

(* ------------------------------ the scan ------------------------------- *)

\* A vocabulary is an ordered mapping {token string: id}: a sequence of
\* <<token_str, id>> pairs with pairwise distinct strings.
VocabIds(vocab) == { vocab[k][2] : k \in DOMAIN vocab }

\* {v: k for k, v in vocab.items()}: a later entry replaces an earlier one
\* of the same id
id_to_token(vocab) ==
    [ v \in VocabIds(vocab) |->
        vocab[CHOOSE k \in DOMAIN vocab :
                 /\ vocab[k][2] = v
                 /\ \A j \in DOMAIN vocab : vocab[j][2] = v => j <= k][1] ]

\* the tuple one loop iteration appends
Entry(token_id, token_str) == << token_id, token_str, clean_token(token_str) >>

\* the appends of one loop iteration, given the categories of its token
AppendEntry(lists, entry, cats) ==
    [ approval |-> IF "approval" \in cats THEN Append(lists.approval, entry)
                   ELSE lists.approval,
      rejection |-> IF "rejection" \in cats THEN Append(lists.rejection, entry)
                    ELSE lists.rejection,
      pending |-> IF "pending" \in cats THEN Append(lists.pending, entry)
                  ELSE lists.pending ]

\* one iteration of "for token_id in range(vocab_size)" on the three lists
ScanToken(vocab, token_id, lists) ==
    IF token_id \notin VocabIds(vocab) THEN lists
    ELSE AppendEntry(lists,
                     Entry(token_id, id_to_token(vocab)[token_id]),
                     Categories(id_to_token(vocab)[token_id]))

RECURSIVE ScanRange(_, _, _, _)
ScanRange(vocab, token_id, vocab_size, lists) ==
    IF token_id >= vocab_size THEN lists
    ELSE ScanRange(vocab, token_id + 1, vocab_size, ScanToken(vocab, token_id, lists))

find_approval_rejection_tokens(vocab) ==
    ScanRange(vocab, 0, Len(vocab),
              [ approval |-> <<>>, rejection |-> <<>>, pending |-> <<>> ])

\* [token_id for token_id, _, _ in tokens]
TokenIds(tokens) == [ k \in DOMAIN tokens |-> tokens[k][1] ]

(* --------------------------- values and files -------------------------- *)

\* a Python name of the run: not bound, bound to None, or bound to a list
Undefined == [ tag |-> "undefined" ]
None == [ tag |-> "None" ]
PyList(items) == [ tag |-> "list", items |-> items ]
IsList(v) == v.tag = "list"

\* np.savez stores np.array(list): an empty list becomes an empty float64
\* array, a list of ints an int64 array
NpArray(list) == [ dtype |-> IF list = <<>> THEN "float64" ELSE "int64", data |-> list ]
\* ndarray.tolist()
ToList(array) == array.data

Absent == [ exists |-> FALSE ]
\* a file np.load cannot open as an archive
Unreadable == [ exists |-> TRUE, readable |-> FALSE ]
\* an .npz archive holding the named arrays
Npz(arrays) == [ exists |-> TRUE, readable |-> TRUE, arrays |-> arrays ]
TextFile(content) == [ exists |-> TRUE, content |-> content ]

\* ids no scan of a model vocabulary produces: what a damaged archive holds
StaleIds == << MaxVocab + 1 >>

DamagedCaches ==
    { Unreadable,
      Npz([ key \in {"approval_ids"} |-> NpArray(StaleIds) ]),
      Npz([ key \in {"approval_ids", "rejection_ids"} |-> NpArray(StaleIds) ]) }

\* the three reads of the try block, in order, stopping at the first that
\* raises: the number of arrays read
ArraysRead(file) ==
    IF ~ file.readable THEN 0
    ELSE IF "approval_ids" \notin DOMAIN file.arrays THEN 0
    ELSE IF "rejection_ids" \notin DOMAIN file.arrays THEN 1
    ELSE IF "pending_ids" \notin DOMAIN file.arrays THEN 2
    ELSE 3

(* ----------------------------- vocabularies ---------------------------- *)

\* token strings, one entry at a time
Tokens ==
    { "unqualified", "uncertain", "confirm", "reviewing", "approved", "_Approved",
      "know", "badge", "no", " no ", "No", "ok", "_a", "<reject>", "[approved]",
      "negative", "Negative", "Void", "yes", "Yes", "Good", "fine", "Fine",
      "outstanding", "sound", "hello", "~Fail", "_reviewing" }

\* token strings of the vocabularies of several entries
SmallTokens == { "unqualified", "confirm", "approved" }

Ids == 0..MaxVocab

RECURSIVE SeqsUpTo(_, _)
SeqsUpTo(S, n) ==
    IF n = 0 THEN { <<>> }
    ELSE LET shorter == SeqsUpTo(S, n - 1)
         IN  shorter \cup { Append(s, x) : s \in shorter, x \in S }

DistinctKeys(vocab) ==
    \A j, k \in DOMAIN vocab : j # k => vocab[j][1] # vocab[k][1]

Vocabularies ==
    { << <<t, v>> >> : t \in Tokens, v \in Ids }
    \cup { vocab \in SeqsUpTo(SmallTokens \X Ids, MaxVocab) : DistinctKeys(vocab) }

(* -------------------------------- state -------------------------------- *)

VARIABLES
    vocab,                \* tokenizer.vocab
    cache_file,           \* gemma_verified_tokens.npz on disk
    detail_file,          \* gemma_token_details.txt on disk
    pc,                   \* position of the run in the script
    run,                  \* number of the run
    approval_token_ids, rejection_token_ids, pending_token_ids,
    approval_tokens, rejection_tokens, pending_tokens,
    load,                 \* history: how the cache lookup of this run went
    start_cache           \* history: the cache file when this run started

vars == << vocab, cache_file, detail_file, pc, run,
           approval_token_ids, rejection_token_ids, pending_token_ids,
           approval_tokens, rejection_tokens, pending_tokens, load, start_cache >>

NotLooked == [ outcome |-> "none", nread |-> 0 ]

\* the values the names and files of the script take
TypeOK ==
    /\ vocab \in Vocabularies
    /\ cache_file.exists \in BOOLEAN
    /\ detail_file.exists \in BOOLEAN
    /\ pc \in { "start", "generate", "dump", "done", "crashed" }
    /\ run \in 1..MaxRuns
    /\ { approval_token_ids.tag, rejection_token_ids.tag, pending_token_ids.tag }
          \subseteq { "undefined", "None", "list" }
    /\ approval_tokens.tag \in { "undefined", "list" }
    /\ rejection_tokens.tag = approval_tokens.tag
    /\ pending_tokens.tag = approval_tokens.tag
    /\ load.outcome \in { "none", "nocache", "ok", "failed" }
    /\ start_cache.exists \in BOOLEAN

Init ==
    /\ vocab \in Vocabularies
    /\ cache_file \in { Absent } \cup DamagedCaches
    /\ detail_file = Absent
    /\ pc = "start"
    /\ run = 1
    /\ approval_token_ids = Undefined
    /\ rejection_token_ids = Undefined
    /\ pending_token_ids = Undefined
    /\ approval_tokens = Undefined
    /\ rejection_tokens = Undefined
    /\ pending_tokens = Undefined
    /\ load = NotLooked
    /\ start_cache = cache_file

files == << cache_file, detail_file >>
ids == << approval_token_ids, rejection_token_ids, pending_token_ids >>
tokens == << approval_tokens, rejection_tokens, pending_tokens >>
fixed == << vocab, run, start_cache >>

(* ------------------------------- the run ------------------------------- *)

\* the load with rejection_token_ids read from the approval array
LoadCacheOk_WrongKey ==
    /\ pc = "start"
    /\ cache_file.exists
    /\ ArraysRead(cache_file) = 3
    /\ approval_token_ids' = PyList(ToList(cache_file.arrays["approval_ids"]))
    /\ rejection_token_ids' = PyList(ToList(cache_file.arrays["approval_ids"]))
    /\ pending_token_ids' = PyList(ToList(cache_file.arrays["pending_ids"]))
    /\ load' = [ outcome |-> "ok", nread |-> 3 ]
    /\ pc' = "generate"
    /\ UNCHANGED << files, tokens, fixed >>

\* the except clause without "approval_token_ids = None": a list read before
\* the failure stays bound
LoadCacheFail_KeepsRead ==
    /\ pc = "start"
    /\ cache_file.exists
    /\ ArraysRead(cache_file) < 3
    /\ approval_token_ids' =
          IF ArraysRead(cache_file) >= 1
          THEN PyList(ToList(cache_file.arrays["approval_ids"]))
          ELSE approval_token_ids
    /\ rejection_token_ids' =
          IF ArraysRead(cache_file) >= 2
          THEN PyList(ToList(cache_file.arrays["rejection_ids"]))
          ELSE rejection_token_ids
    /\ cache_file' = Absent
    /\ load' = [ outcome |-> "failed", nread |-> ArraysRead(cache_file) ]
    /\ pc' = "generate"
    /\ UNCHANGED << detail_file, pending_token_ids, tokens, fixed >>

\* if os.path.exists(token_cache_file): ... the try block succeeds
LoadCacheOk ==
    /\ pc = "start"
    /\ cache_file.exists
    /\ ArraysRead(cache_file) = 3
    /\ approval_token_ids' = PyList(ToList(cache_file.arrays["approval_ids"]))
    /\ rejection_token_ids' = PyList(ToList(cache_file.arrays["rejection_ids"]))
    /\ pending_token_ids' = PyList(ToList(cache_file.arrays["pending_ids"]))
    /\ load' = [ outcome |-> "ok", nread |-> 3 ]
    /\ pc' = "generate"
    /\ UNCHANGED << files, tokens, fixed >>

\* ... a read raises: the lists read so far stay bound, the except clause
\* removes the file and rebinds approval_token_ids to None
LoadCacheFail ==
    /\ pc = "start"
    /\ cache_file.exists
    /\ ArraysRead(cache_file) < 3
    /\ approval_token_ids' = None
    /\ rejection_token_ids' =
          IF ArraysRead(cache_file) >= 2
          THEN PyList(ToList(cache_file.arrays["rejection_ids"]))
          ELSE rejection_token_ids
    /\ cache_file' = Absent
    /\ load' = [ outcome |-> "failed", nread |-> ArraysRead(cache_file) ]
    /\ pc' = "generate"
    /\ UNCHANGED << detail_file, pending_token_ids, tokens, fixed >>

\* else: approval_token_ids = None
NoCache ==
    /\ pc = "start"
    /\ ~ cache_file.exists
    /\ approval_token_ids' = None
    /\ load' = [ outcome |-> "nocache", nread |-> 0 ]
    /\ pc' = "generate"
    /\ UNCHANGED << files, rejection_token_ids, pending_token_ids, tokens, fixed >>

\* if 'approval_token_ids' not in locals() or approval_token_ids is None
MustGenerate == approval_token_ids = Undefined \/ approval_token_ids = None

\* the scan, the three id lists and np.savez
Generate ==
    /\ pc = "generate"
    /\ MustGenerate
    /\ \E found \in { find_approval_rejection_tokens(vocab) } :
           /\ approval_tokens' = PyList(found.approval)
           /\ rejection_tokens' = PyList(found.rejection)
           /\ pending_tokens' = PyList(found.pending)
           /\ approval_token_ids' = PyList(TokenIds(found.approval))
           /\ rejection_token_ids' = PyList(TokenIds(found.rejection))
           /\ pending_token_ids' = PyList(TokenIds(found.pending))
           /\ cache_file' =
                 Npz([ key \in {"approval_ids", "rejection_ids", "pending_ids"} |->
                         CASE key = "approval_ids" -> NpArray(TokenIds(found.approval))
                           [] key = "rejection_ids" -> NpArray(TokenIds(found.rejection))
                           [] key = "pending_ids" -> NpArray(TokenIds(found.pending)) ])
    /\ pc' = "dump"
    /\ UNCHANGED << detail_file, load, fixed >>

\* the lists came from the cache: nothing to generate
SkipGenerate ==
    /\ pc = "generate"
    /\ ~ MustGenerate
    /\ pc' = "dump"
    /\ UNCHANGED << files, ids, tokens, load, fixed >>

\* f"{token_id}: '{token_str}' -> '{clean_token}'\n"
DetailLine(entry) ==
    ToString(entry[1]) \o ": '" \o entry[2] \o "' -> '" \o entry[3] \o "'\n"

DetailLines(entries) == [ k \in DOMAIN entries |-> DetailLine(entries[k]) ]

DetailHeader ==
    << "GEMMA-7B TOKEN ANALYSIS\n",
       "==================================================\n\n" >>

\* the writes of the with block, in order, with all three lists bound
DetailContent(approval, rejection, pending) ==
    DetailHeader
    \o << "APPROVAL TOKENS:\n" >> \o DetailLines(approval)
    \o << "\nREJECTION TOKENS:\n" >> \o DetailLines(rejection)
    \o << "\nPENDING TOKENS:\n" >> \o DetailLines(pending)

\* if not os.path.exists(detailed_cache_file): false
DetailExists ==
    /\ pc = "dump"
    /\ detail_file.exists
    /\ pc' = "done"
    /\ UNCHANGED << files, ids, tokens, load, fixed >>

\* the dump with approval_tokens, rejection_tokens, pending_tokens bound
WriteDetail ==
    /\ pc = "dump"
    /\ ~ detail_file.exists
    /\ IsList(approval_tokens)
    /\ detail_file' = TextFile(DetailContent(approval_tokens.items,
                                              rejection_tokens.items,
                                              pending_tokens.items))
    /\ pc' = "done"
    /\ UNCHANGED << cache_file, ids, tokens, load, fixed >>

\* the dump of a run that did not scan: approval_tokens is not bound, the
\* first loop raises NameError and the with block closes the file, which
\* keeps what was written before
WriteDetailNameError ==
    /\ pc = "dump"
    /\ ~ detail_file.exists
    /\ ~ IsList(approval_tokens)
    /\ detail_file' = TextFile(DetailHeader \o << "APPROVAL TOKENS:\n" >>)
    /\ pc' = "crashed"
    /\ UNCHANGED << cache_file, ids, tokens, load, fixed >>

\* the script is started again: a new process, the same two files
NextRun ==
    /\ pc \in { "done", "crashed" }
    /\ run < MaxRuns
    /\ run' = run + 1
    /\ pc' = "start"
    /\ approval_token_ids' = Undefined
    /\ rejection_token_ids' = Undefined
    /\ pending_token_ids' = Undefined
    /\ approval_tokens' = Undefined
    /\ rejection_tokens' = Undefined
    /\ pending_tokens' = Undefined
    /\ load' = NotLooked
    /\ start_cache' = cache_file
    /\ UNCHANGED << vocab, files >>

\* between two runs the detail file is removed by hand, the cache is kept
RemoveDetailFile ==
    /\ pc \in { "done", "crashed" }
    /\ detail_file.exists
    /\ detail_file' = Absent
    /\ UNCHANGED << vocab, cache_file, pc, run, ids, tokens, load, start_cache >>

Next ==
    \/ LoadCacheOk
    \/ LoadCacheFail
    \/ NoCache
    \/ Generate
    \/ SkipGenerate
    \/ DetailExists
    \/ WriteDetail
    \/ WriteDetailNameError
    \/ NextRun
    \/ RemoveDetailFile

Spec == Init /\ [][Next]_vars

(* ------------------------- vocabulary of the claims -------------------- *)

\* the run performed the classification scan
Scanned == IsList(approval_tokens)

\* the ids the loop examines: those of range(vocab_size) bound in id_to_token
ExaminedIds == { token_id \in 0..(Len(vocab) - 1) : token_id \in VocabIds(vocab) }

\* the entry is in the list of tuples
InTokens(entry, tokens_list) == InList(entry, tokens_list.items)

\* some tuple of the list carries the raw token string
Listed(token_str, tokens_list) ==
    \E k \in DOMAIN tokens_list.items : tokens_list.items[k][2] = token_str

Elements(list) == { list[k] : k \in DOMAIN list }

StrictlyIncreasing(list) == \A j, k \in DOMAIN list : j < k => list[j] < list[k]

(* --------------------------------- C1 ---------------------------------- *)

\* C1: after a full classification scan the approval, rejection and pending
\* id lists are pairwise disjoint: no token id is in two of them.
C1_Disjoint ==
    Scanned =>
        /\ Elements(approval_token_ids.items) \cap Elements(rejection_token_ids.items) = {}
        /\ Elements(approval_token_ids.items) \cap Elements(pending_token_ids.items) = {}
        /\ Elements(rejection_token_ids.items) \cap Elements(pending_token_ids.items) = {}

C1_Witness ==
    /\ Scanned
    /\ approval_token_ids.items # <<>>
    /\ rejection_token_ids.items # <<>>

(* --------------------------------- C2 ---------------------------------- *)

\* C2: every examined token that passes the filter is classified in the
\* priority rejection > pending > approval: one that satisfies the rejection
\* check is in the rejection list only, whatever else it matches, and one that
\* fails the rejection check and matches a pending pattern is in the pending
\* list only.
C2_Priority ==
    Scanned =>
        \A token_id \in ExaminedIds :
            LET token_str == id_to_token(vocab)[token_id]
                entry == Entry(token_id, token_str)
            IN  ~ Skipped(token_str) =>
                  /\ is_rejection(token_str) =>
                        /\ InTokens(entry, rejection_tokens)
                        /\ ~ InTokens(entry, pending_tokens)
                        /\ ~ InTokens(entry, approval_tokens)
                  /\ (~ is_rejection(token_str) /\ is_pending(token_str)) =>
                        /\ InTokens(entry, pending_tokens)
                        /\ ~ InTokens(entry, rejection_tokens)
                        /\ ~ InTokens(entry, approval_tokens)

\* "unqualified" (rejection, holds the approval stem "qualif") and "confirm"
\* (a pending pattern and an approval stem) were both classified
C2_Witness ==
    /\ Scanned
    /\ Listed("unqualified", rejection_tokens)
    /\ Listed("confirm", pending_tokens)

(* --------------------------------- C3 ---------------------------------- *)

\* C3: a run whose cache file exists but cannot be read in full deletes the
\* file, scans, and ends with a cache file holding exactly the three id lists
\* of that scan; no list read from the failed cache is kept.
C3_FailedLoadRegenerates ==
    load.outcome = "failed" =>
        /\ pc # "crashed"
        /\ pc = "generate" => ~ cache_file.exists
        /\ pc \in { "dump", "done" } =>
              /\ Scanned
              /\ approval_token_ids = PyList(TokenIds(approval_tokens.items))
              /\ rejection_token_ids = PyList(TokenIds(rejection_tokens.items))
              /\ pending_token_ids = PyList(TokenIds(pending_tokens.items))
              /\ cache_file.exists /\ ArraysRead(cache_file) = 3
              /\ ToList(cache_file.arrays["approval_ids"]) = approval_token_ids.items
              /\ ToList(cache_file.arrays["rejection_ids"]) = rejection_token_ids.items
              /\ ToList(cache_file.arrays["pending_ids"]) = pending_token_ids.items
              /\ \A v \in Elements(StaleIds) :
                    v \notin Elements(approval_token_ids.items)
                             \cup Elements(rejection_token_ids.items)
                             \cup Elements(pending_token_ids.items)

\* the read failed at the third array, after two were read, and the run is over
C3_Witness ==
    /\ load.outcome = "failed"
    /\ load.nread = 2
    /\ pc = "done"
    /\ rejection_token_ids.items # <<>>

(* --------------------------------- C4 ---------------------------------- *)

\* the header, the three section titles and one line per classified id
DetailComplete(file) ==
    /\ file.exists
    /\ InList("APPROVAL TOKENS:\n", file.content)
    /\ InList("\nREJECTION TOKENS:\n", file.content)
    /\ InList("\nPENDING TOKENS:\n", file.content)
    /\ Len(file.content) =
          Len(DetailHeader) + Len(approval_token_ids.items)
          + Len(rejection_token_ids.items) + Len(pending_token_ids.items)
          + Cardinality({ "APPROVAL", "REJECTION", "PENDING" })

\* C4: whenever the detail file does not exist when a run reaches the dump,
\* the run writes the complete detail file, the id lists coming from a scan
\* or from the cache file.
C4_DumpWritesDetail ==
    [][ (pc = "dump" /\ ~ detail_file.exists) => DetailComplete(detail_file') ]_vars

(* --------------------------------- C5 ---------------------------------- *)

\* the substring patterns that are not words of the exact-match list
OtherRejectionPatterns ==
    SelectSeq(rejection_patterns, LAMBDA p : ~ InList(p, rejection_exact_matches))

\* the token holds a word of the exact-match list as a proper substring, is
\* not itself such a word, and matches no other rejection pattern
OnlyContainsExactWord(token_str) ==
    /\ ~ InList(token_lower(token_str), rejection_exact_matches)
    /\ AnyIn(rejection_exact_matches, token_lower(token_str))
    /\ ~ AnyIn(OtherRejectionPatterns, token_lower(token_str))

\* C5: the words of the rejection exact-match list reject by equality only: a
\* token that merely contains one of them and matches no other rejection
\* pattern is not classified rejection.
C5_ExactWordsNotSubstrings ==
    Scanned =>
        \A k \in DOMAIN rejection_tokens.items :
            ~ OnlyContainsExactWord(rejection_tokens.items[k][2])

(* --------------------------------- C6 ---------------------------------- *)

StartsSpecial(token_str) == StartsWith(token_str, "<") \/ StartsWith(token_str, "[")

ListedAnywhere(token_str) ==
    \/ Listed(token_str, approval_tokens)
    \/ Listed(token_str, rejection_tokens)
    \/ Listed(token_str, pending_tokens)

\* C7: an entry whose raw string starts with "<" or "[", or whose cleaned
\* form has fewer than 2 characters, is in none of the three lists; an
\* examined token whose cleaned form has exactly 2 characters is not filtered
\* out: if it matches a rule it is listed.
C7_Filter ==
    Scanned =>
        /\ \A k \in DOMAIN vocab :
              (StartsSpecial(vocab[k][1]) \/ Len(clean_token(vocab[k][1])) < 2)
                  => ~ ListedAnywhere(vocab[k][1])
        /\ \A token_id \in ExaminedIds :
              LET token_str == id_to_token(vocab)[token_id]
              IN  ( /\ Len(clean_token(token_str)) = 2
                    /\ ~ StartsSpecial(token_str)
                    /\ (is_rejection(token_str) \/ is_pending(token_str)
                            \/ is_approval(token_str)) )
                      => ListedAnywhere(token_str)

\* " no ", cleaned to the two characters "no", was classified rejection
C7_Witness ==
    /\ Scanned
    /\ Listed(" no ", rejection_tokens)
    /\ clean_token(" no ") = "no"

(* --------------------------------- C8 ---------------------------------- *)

\* C8: the exact-match checks use the lowercased cleaned token: an examined
\* token whose lowercased cleaned form is a rejection exact-match word is
\* classified rejection, and one whose lowercased cleaned form is an approval
\* exact-match word and that matches no rejection or pending rule is
\* classified approval, whatever the case of the raw token.
C8_ExactMatchIgnoresCase ==
    Scanned =>
        \A token_id \in ExaminedIds :
            LET token_str == id_to_token(vocab)[token_id]
                entry == Entry(token_id, token_str)
            IN  ~ Skipped(token_str) =>
                  /\ InList(token_lower(token_str), rejection_exact_matches)
                        => InTokens(entry, rejection_tokens)
                  /\ ( /\ InList(token_lower(token_str), approval_exact_matches)
                       /\ ~ is_rejection(token_str)
                       /\ ~ is_pending(token_str) )
                        => InTokens(entry, approval_tokens)

(* --------------------------------- C9 ---------------------------------- *)

HasApprovalStem(token_str) == AnyIn(approval_base_stems, token_lower(token_str))
HasNegation(token_str) == AnyIn(negated_indicators, token_lower(token_str))
IsApprovalWord(token_str) == InList(clean_token(token_str), approval_exact_matches)

\* C9: a token that reaches the approval check is classified approval exactly
\* when its cleaned form is an approval exact-match word, or it holds an
\* approval stem and no negation indicator; with a stem and a negation
\* indicator (and no exact match) it is in no list.
C9_ApprovalRule ==
    Scanned =>
        \A token_id \in ExaminedIds :
            LET token_str == id_to_token(vocab)[token_id]
                entry == Entry(token_id, token_str)
            IN  (~ Skipped(token_str) /\ ~ is_rejection(token_str) /\ ~ is_pending(token_str)) =>
                  /\ InTokens(entry, approval_tokens)
                        <=> \/ IsApprovalWord(token_str)
                            \/ HasApprovalStem(token_str) /\ ~ HasNegation(token_str)
                  /\ ( /\ HasApprovalStem(token_str)
                       /\ HasNegation(token_str)
                       /\ ~ IsApprovalWord(token_str) )
                        => ~ ListedAnywhere(token_str)

\* "outstanding" (stem and "in") was examined and left out
C9_Witness ==
    /\ Scanned
    /\ vocab = << << "outstanding", 0 >> >>
    /\ ~ ListedAnywhere("outstanding")
    /\ HasApprovalStem("outstanding") /\ HasNegation("outstanding")

(* --------------------------------- C10 --------------------------------- *)

\* C10: the scan examines every entry of the vocabulary, whatever its ids:
\* every entry that passes the filter and matches a rule is in that rule's
\* list, and each id list is strictly increasing.
C10_EveryEntryExamined ==
    Scanned =>
        /\ \A k \in DOMAIN vocab :
              LET entry == Entry(vocab[k][2], vocab[k][1])
                  cats == Categories(vocab[k][1])
              IN  /\ "approval" \in cats => InTokens(entry, approval_tokens)
                  /\ "rejection" \in cats => InTokens(entry, rejection_tokens)
                  /\ "pending" \in cats => InTokens(entry, pending_tokens)
        /\ StrictlyIncreasing(approval_token_ids.items)
        /\ StrictlyIncreasing(rejection_token_ids.items)
        /\ StrictlyIncreasing(pending_token_ids.items)

====
